---- MODULE Spec2Model ----
(***************************************************************************)
(* Model of app_facturas.py: the invoice classifier (Cobradas / En curso / *)
(* No cobradas).                                                           *)
(*                                                                         *)
(* Text is modelled as a sequence of one-character strings, so that        *)
(* stripping, replacing, searching and substring containment are computed  *)
(* character by character as the Python code computes them.                *)
(*                                                                         *)
(* Money is modelled exactly, as an integer number of 10^-Scale currency   *)
(* units (Unit == 10^Scale is the value 1.0); the binary rounding of       *)
(* Python floats is not modelled.                                          *)
(***************************************************************************)
EXTENDS Integers, Sequences, FiniteSets, TLC

VARIABLES
    pc,            \* position of the run being modelled
    x,             \* _to_number: the argument
    number,        \* _to_number: the returned value
    headers,       \* column names as they stand in the loaded file(s)
    df_columns,    \* df.columns after load_files
    any_total,     \* whether some cell of the resolved total column parses
    col_total,     \* classify_by_amounts: col_total
    col_paid,      \* classify_by_amounts: col_paid
    col_pending,   \* classify_by_amounts: col_pending
    estado_col,    \* classify_by_status: the column picked in the selectbox
    result,        \* module level: result
    by_amounts,    \* module level: by_amounts
    df,            \* the rows handed to classify_by_amounts / classify_by_status
    work,          \* the derived columns of the working copy
    cobradas,      \* row indexes of the first returned frame
    en_curso,      \* row indexes of the second returned frame
    no_cobradas,   \* row indexes of the third returned frame
    PDF_ENABLED,   \* module level: whether pdfplumber could be imported
    pages,         \* read_pdf_tables: the pages of the opened PDF
    page_i,        \* read_pdf_tables: pages consumed by the for loop
    dfs,           \* read_pdf_tables: dfs
    pdf_ret        \* read_pdf_tables: the returned frame

numVars == <<x, number>>
engVars == <<headers, df_columns, any_total, col_total, col_paid, col_pending,
             estado_col, result, by_amounts>>
tabVars == <<df, work, cobradas, en_curso, no_cobradas>>
pdfVars == <<PDF_ENABLED, pages, page_i, dfs, pdf_ret>>
vars == <<pc, numVars, engVars, tabVars, pdfVars>>

(***************************************************************************)
(* Bounds of the model.                                                    *)
(***************************************************************************)
\* longest enumerated input string of _to_number
MaxLen == 4
\* most rows of a frame handed to classify_by_amounts
MaxRows == 2
\* most rows of a frame handed to classify_by_status
MaxStatusRows == 2
\* most columns of a loaded frame
MaxCols == 2
\* most pages of a PDF
MaxPages == 3

(***************************************************************************)
(* Values.                                                                 *)
(***************************************************************************)
RECURSIVE Pow10(_)
Pow10(n) == IF n = 0 THEN 1 ELSE 10 * Pow10(n - 1)

\* decimal digits kept by the exact representation of money
Scale == MaxLen - 1
\* the representation of 1.0
Unit == Pow10(Scale)

\* m thousandths of a currency unit (Scale >= 3)
Milli(m) == m * (Unit \div 1000)

\* Python None / NaN: "no value"
None == [some |-> FALSE, v |-> 0]
Some(v) == [some |-> TRUE, v |-> v]

\* a raw cell: missing (NaN/None), a number (int or float), or a string
Missing == [tag |-> "missing", v |-> 0, s |-> <<>>]
Num(v) == [tag |-> "num", v |-> v, s |-> <<>>]
Str(s) == [tag |-> "str", v |-> 0, s |-> s]

Digits == {"0", "1", "2", "3", "4", "5", "6", "7", "8", "9"}
DigitVal == [d \in Digits |->
               CASE d = "0" -> 0 [] d = "1" -> 1 [] d = "2" -> 2 [] d = "3" -> 3
                 [] d = "4" -> 4 [] d = "5" -> 5 [] d = "6" -> 6 [] d = "7" -> 7
                 [] d = "8" -> 8 [] d = "9" -> 9]
Whitespace == {" ", "\t"}

(***************************************************************************)
(* Python string primitives.                                               *)
(***************************************************************************)
\* keep the characters of s that are in K, in order (re.sub of the complement)
Keep(s, K) == SelectSeq(s, LAMBDA c : c \in K)

\* s.replace(a, b) for a one-character a; b is a (possibly empty) text
RECURSIVE Replace(_, _, _)
Replace(s, a, b) ==
    IF s = <<>> THEN <<>>
    ELSE (IF Head(s) = a THEN b ELSE <<Head(s)>>) \o Replace(Tail(s), a, b)

\* s.rfind(a) for a one-character a: the last index (from 0), or -1
RFind(s, a) ==
    LET at == {i \in 1..Len(s) : s[i] = a}
    IN  IF at = {} THEN -1 ELSE (CHOOSE i \in at : \A j \in at : j <= i) - 1

\* a in s, for a one-character a
HasChar(s, a) == \E i \in 1..Len(s) : s[i] = a

\* s.strip()
RECURSIVE LStrip(_)
LStrip(s) == IF s # <<>> /\ Head(s) \in Whitespace THEN LStrip(Tail(s)) ELSE s
RECURSIVE RStrip(_)
RStrip(s) ==
    IF s # <<>> /\ s[Len(s)] \in Whitespace
    THEN RStrip(SubSeq(s, 1, Len(s) - 1)) ELSE s
Strip(s) == LStrip(RStrip(s))

\* sub in s (substring containment)
Contains(sub, s) ==
    \E i \in 0..(Len(s) - Len(sub)) : SubSeq(s, i + 1, i + Len(sub)) = sub

\* the value of a run of digits
RECURSIVE DigitsVal(_)
DigitsVal(s) ==
    IF s = <<>> THEN 0 ELSE 10 * DigitsVal(SubSeq(s, 1, Len(s) - 1)) + DigitVal[s[Len(s)]]

(***************************************************************************)
(* float(s) for a text s of digits, periods and minus signs: a value, or   *)
(* None where Python raises ValueError.  Python accepts an optional sign   *)
(* followed by digits with at most one period and at least one digit.      *)
(***************************************************************************)
PyFloat(s) ==
    LET neg  == s # <<>> /\ Head(s) = "-"
        body == IF neg THEN Tail(s) ELSE s
        dots == {i \in 1..Len(body) : body[i] = "."}
        ok   == /\ \A i \in 1..Len(body) : body[i] \in Digits \cup {"."}
                /\ Cardinality(dots) <= 1
                /\ \E i \in 1..Len(body) : body[i] \in Digits
        dot  == IF dots = {} THEN Len(body) + 1 ELSE CHOOSE i \in dots : TRUE
        int  == SubSeq(body, 1, dot - 1)
        frac == SubSeq(body, dot + 1, Len(body))
        mag  == DigitsVal(int) * Unit + DigitsVal(frac) * Pow10(Scale - Len(frac))
    IN  IF ok THEN Some(IF neg THEN 0 - mag ELSE mag) ELSE None

(***************************************************************************)
(* _to_number                                                              *)
(***************************************************************************)
\* a cleaning that keeps a minus sign only while nothing else has been kept
RECURSIVE KeepLeadingMinus(_, _)
KeepLeadingMinus(s, leading) ==
    IF s = <<>> THEN <<>>
    ELSE IF Head(s) \in Digits \cup {",", "."}
         THEN <<Head(s)>> \o KeepLeadingMinus(Tail(s), FALSE)
         ELSE IF Head(s) = "-" /\ leading
              THEN <<"-">> \o KeepLeadingMinus(Tail(s), TRUE)
              ELSE KeepLeadingMinus(Tail(s), leading)
CleanNumberLeadingMinus(s) == KeepLeadingMinus(s, TRUE)

\* line 38: re.sub(r"[^\d,.\-]", "", s)
CleanNumber(s) == Keep(s, Digits \cup {",", ".", "-"})

\* lines 41-51: which separator is the decimal point
LaterIsComma(s) == RFind(s, ",") > RFind(s, ".")
Separators(s) ==
    IF HasChar(s, ",") /\ HasChar(s, ".")
    THEN IF LaterIsComma(s)
         THEN Replace(Replace(s, ".", <<>>), ",", <<".">>)
         ELSE Replace(s, ",", <<>>)
    ELSE IF HasChar(s, ",") THEN Replace(s, ",", <<".">>) ELSE s

ToNumber(cell) ==
    CASE cell.tag = "missing" -> None
      [] cell.tag = "num"     -> Some(cell.v)
      [] cell.tag = "str"     -> PyFloat(Separators(CleanNumber(Strip(cell.s))))

(***************************************************************************)
(* The run of one call of _to_number.                                      *)
(***************************************************************************)
NumAlphabet == {"1", "5", ",", ".", "-", "e", " "}
TextsUpTo(A, n) == UNION {[1..k -> A] : k \in 0..n}

SampleNumberTexts ==
    { <<"1", ".", "2", "3", "4", ",", "5", "6">>,
      <<"1", ",", "2", "3", "4", ".", "5", "6">>,
      <<"1", ",", "2", "3">>,
      <<"a", "b", "c">>,
      <<>>,
      <<"1", "0", "0", ",", "0", "0", " ", "E", "U", "R">>,
      <<"-", " ", "1", "2", ",", "5">> }

NumberInputs ==
    {Missing} \cup {Num(Milli(m)) : m \in {0, -1000, 2500}}
      \cup {Str(s) : s \in TextsUpTo(NumAlphabet, MaxLen) \cup SampleNumberTexts}

Idle == "idle"
NumIdle == x = Idle /\ number = Idle
EngIdle ==
    /\ headers = Idle /\ df_columns = Idle /\ any_total = Idle /\ col_total = Idle
    /\ col_paid = Idle /\ col_pending = Idle /\ estado_col = Idle
    /\ result = Idle /\ by_amounts = Idle
TabIdle ==
    /\ df = Idle /\ work = Idle /\ cobradas = Idle /\ en_curso = Idle
    /\ no_cobradas = Idle
PdfIdle ==
    /\ PDF_ENABLED = Idle /\ pages = Idle /\ page_i = Idle /\ dfs = Idle
    /\ pdf_ret = Idle

InitNumber ==
    /\ pc = "to_number"
    /\ x \in NumberInputs
    /\ number = None
    /\ EngIdle /\ TabIdle /\ PdfIdle

ToNumberCall ==
    /\ pc = "to_number"
    /\ number' = ToNumber(x)
    /\ pc' = "to_number_done"
    /\ UNCHANGED <<x, engVars, tabVars, pdfVars>>

NextNumber == ToNumberCall
SpecNumber == InitNumber /\ [][NextNumber]_vars

(***************************************************************************)
(* C7: the Amount Parser.                                                  *)
(***************************************************************************)
\* the last index of character a in s (from 1), or 0
LastIndex(s, a) ==
    LET at == {i \in 1..Len(s) : s[i] = a}
    IN  IF at = {} THEN 0 ELSE CHOOSE i \in at : \A j \in at : j <= i

\* the separator the claim treats as the decimal point: whichever of comma
\* and period occurs later when both occur, else the one that occurs
DecimalSeparator(s) ==
    IF LastIndex(s, ",") > LastIndex(s, ".") THEN "," ELSE "."

\* s with the decimal separator written as a period and the other removed
DecimalForm(s) ==
    LET dec  == DecimalSeparator(s)
        kept == SelectSeq(s, LAMBDA c : c \notin {",", "."} \/ c = dec)
    IN  [i \in 1..Len(kept) |-> IF kept[i] = dec THEN "." ELSE kept[i]]

\* the characters the cleaning keeps: digits, commas, periods, minus signs
KeptCharacters(s) == SelectSeq(s, LAMBDA c : c \in Digits \cup {",", ".", "-"})

ParsedHere(expected) == pc = "to_number_done" /\ x.tag = "str" => number = expected

\* C7 as stated: only a leading minus sign survives the cleaning, so that
\* a text such as "1-5" is read as 15.
C7_AsStated == ParsedHere(PyFloat(DecimalForm(KeepLeadingMinus(x.s, TRUE))))

\* C7 (amended): for every string input _to_number returns the value obtained
\* by keeping only digits, commas, periods and minus signs (every minus sign,
\* wherever it occurs), then taking the later of comma and period as the
\* decimal point and removing the other (a lone comma is the decimal point, a
\* lone period stays); a text so obtained that is not a decimal number, which
\* includes every one with a minus sign after its first character, gives no
\* value.  '1.234,56' and '1,234.56' give 1234.56, '1,23' gives 1.23, and '',
\* 'abc' and a missing value give no value.
C7_Parser ==
    /\ ParsedHere(PyFloat(DecimalForm(KeptCharacters(x.s))))
    /\ pc = "to_number_done" =>
         /\ x = Str(<<"1", ".", "2", "3", "4", ",", "5", "6">>) => number = Some(Milli(1234560))
         /\ x = Str(<<"1", ",", "2", "3", "4", ".", "5", "6">>) => number = Some(Milli(1234560))
         /\ x = Str(<<"1", ",", "2", "3">>) => number = Some(Milli(1230))
         /\ x \in {Str(<<>>), Str(<<"a", "b", "c">>), Missing} => number = None
         /\ x.tag = "str" /\ (\E i \in 2..Len(DecimalForm(KeptCharacters(x.s))) :
                                 DecimalForm(KeptCharacters(x.s))[i] = "-") => number = None

\* a text with a minus sign between two digits has been parsed to no value
C7_Witness ==
    pc = "to_number_done" /\ x = Str(<<"1", "-", "5">>) /\ number = None

(***************************************************************************)
(* classify_by_amounts, from the working copy on (lines 176-231).  The     *)
(* frame is modelled by the cells of its resolved total, paid and pending  *)
(* columns; has_paid and has_pending tell whether col_paid and col_pending *)
(* were resolved.  A returned frame is the set of the row indexes it       *)
(* holds.                                                                  *)
(***************************************************************************)
\* lines 179-189: the three parsed columns of one row
ParsedRow(frame, row) ==
    [ total     |-> ToNumber(row.total),
      pagado    |-> IF frame.has_paid THEN ToNumber(row.paid) ELSE None,
      pendiente |-> IF frame.has_pending THEN ToNumber(row.pending) ELSE None ]

\* a fill of the paid column that ignores whether paid is missing
FillPaidAlways(w) ==
    IF w.total.some /\ w.pendiente.some
    THEN [w EXCEPT !.pagado = Some(w.total.v - w.pendiente.v)]
    ELSE w

\* lines 193-194
FillPaid(w) ==
    IF ~w.pagado.some /\ w.total.some /\ w.pendiente.some
    THEN [w EXCEPT !.pagado = Some(w.total.v - w.pendiente.v)]
    ELSE w

\* lines 197-198
FillPending(w) ==
    IF ~w.pendiente.some /\ w.total.some /\ w.pagado.some
    THEN [w EXCEPT !.pendiente = Some(w.total.v - w.pagado.v)]
    ELSE w

\* line 201: eps = 0.01
eps == Unit \div 100

\* lines 202-204
IsCobrada(w) ==
    w.total.some /\ w.pagado.some /\ w.pagado.v >= w.total.v - eps

\* lines 206-209
IsEnCurso(w) ==
    /\ w.total.some /\ w.pagado.some
    /\ w.pagado.v > eps /\ w.pagado.v < w.total.v - eps

\* an unpaid test that forgets the rows without a paid value
IsNoCobradaPaidPresent(w) ==
    w.total.some /\ w.pagado.some /\ w.pagado.v <= eps

\* lines 212-213
IsNoCobrada(w) ==
    w.total.some /\ (~w.pagado.some \/ w.pagado.v <= eps)

TotalCells ==
    {Missing, Str(<<"1", "0", "0", ",", "0", "0">>), Num(0), Num(Milli(15))}
PaidCells ==
    {Missing, Num(0), Num(Milli(5)), Num(Milli(50000)), Num(Milli(99995)),
     Num(Milli(150000))}
PendingCells == {Missing, Num(Milli(40000))}

AmountRows(hp, hq) ==
    [ total : TotalCells,
      paid : IF hp THEN PaidCells ELSE {Missing},
      pending : IF hq THEN PendingCells ELSE {Missing} ]

InitAmounts ==
    /\ pc = "amounts"
    /\ \E hp \in BOOLEAN, hq \in BOOLEAN, n \in 1..MaxRows :
         \E rows \in [1..n -> AmountRows(hp, hq)] :
           df = [has_paid |-> hp, has_pending |-> hq, rows |-> rows]
    /\ work = <<>> /\ cobradas = {} /\ en_curso = {} /\ no_cobradas = {}
    /\ NumIdle /\ EngIdle /\ PdfIdle

ClassifyByAmounts ==
    /\ pc = "amounts"
    /\ LET w == [i \in 1..Len(df.rows) |->
                   FillPending(FillPaid(ParsedRow(df, df.rows[i])))]
       IN  /\ work' = w
           /\ cobradas' = {i \in 1..Len(w) : IsCobrada(w[i])}
           /\ en_curso' = {i \in 1..Len(w) : IsEnCurso(w[i])}
           /\ no_cobradas' = {i \in 1..Len(w) : IsNoCobrada(w[i])}
    /\ pc' = "amounts_done"
    /\ UNCHANGED <<df, numVars, engVars, pdfVars>>

NextAmounts == ClassifyByAmounts
SpecAmounts == InitAmounts /\ [][NextAmounts]_vars

(***************************************************************************)
(* C1, C2, C6: the amount mode.                                            *)
(***************************************************************************)
Classified == pc = "amounts_done"
Rows == 1..Len(df.rows)

\* C1: in amount mode no record is placed in more than one of the three
\* partitions, whatever its total (zero, negative or below 2*eps included).
C1_MutuallyExclusive ==
    Classified =>
      \A i \in Rows :
        /\ ~(i \in cobradas /\ i \in en_curso)
        /\ ~(i \in cobradas /\ i \in no_cobradas)
        /\ ~(i \in en_curso /\ i \in no_cobradas)

\* C2: in amount mode a record is in at least one of the three partitions
\* if and only if the value of its total column parses to a number.
C2_InSomePartitionIffTotal ==
    Classified =>
      \A i \in Rows :
        (i \in cobradas \cup en_curso \cup no_cobradas)
          <=> ToNumber(df.rows[i].total).some

\* one row with a parsed total is classified and another, whose total is
\* missing, is in no partition
C2_Witness ==
    /\ Classified
    /\ \E i, j \in Rows :
         /\ df.rows[i].total.tag = "str" /\ i \in en_curso
         /\ df.rows[j].total = Missing
         /\ j \notin cobradas \cup en_curso \cup no_cobradas

\* the parsed, not yet reconciled, values of row i
Parsed(i) == ParsedRow(df, df.rows[i])

\* C6: the reconciler applies only the single-missing-field fill, row by row:
\* paid missing with total and outstanding present becomes total -
\* outstanding; outstanding missing with total and paid present becomes
\* total - paid; in every other combination the three fields stay as parsed
\* (a missing total is never derived, a present field never overwritten, two
\* or more missing fields stay missing).
C6_Reconciler ==
    Classified =>
      \A i \in Rows :
        LET t == Parsed(i).total
            p == Parsed(i).pagado
            q == Parsed(i).pendiente
        IN  /\ work[i].total = t
            /\ p.some => work[i].pagado = p
            /\ q.some => work[i].pendiente = q
            /\ ~t.some => work[i] = Parsed(i)
            /\ ~p.some /\ ~q.some => work[i] = Parsed(i)
            /\ t.some /\ ~p.some /\ q.some => work[i].pagado = Some(t.v - q.v)
            /\ t.some /\ p.some /\ ~q.some => work[i].pendiente = Some(t.v - p.v)

\* total 100, paid missing, outstanding 40: paid has become 60; and a row
\* without total keeps it missing beside a present paid value
C6_Witness ==
    /\ Classified
    /\ \E i, j \in Rows :
         /\ Parsed(i) = [total |-> Some(Milli(100000)), pagado |-> None,
                         pendiente |-> Some(Milli(40000))]
         /\ work[i].pagado = Some(Milli(60000))
         /\ ~Parsed(j).total.some /\ Parsed(j).pagado.some /\ Parsed(j).pendiente.some
         /\ ~work[j].total.some

(***************************************************************************)
(* classify_by_status, from the working copy on (lines 245-258).  The      *)
(* frame is modelled by the cells of the chosen status column.  An         *)
(* accented letter is one character, written "a_acute", "i_acute", ...     *)
(***************************************************************************)
LowerOf ==
    ("A" :> "a") @@ ("B" :> "b") @@ ("C" :> "c") @@ ("D" :> "d") @@ ("E" :> "e") @@
    ("F" :> "f") @@ ("G" :> "g") @@ ("H" :> "h") @@ ("I" :> "i") @@ ("J" :> "j") @@
    ("K" :> "k") @@ ("L" :> "l") @@ ("M" :> "m") @@ ("N" :> "n") @@ ("O" :> "o") @@
    ("P" :> "p") @@ ("Q" :> "q") @@ ("R" :> "r") @@ ("S" :> "s") @@ ("T" :> "t") @@
    ("U" :> "u") @@ ("V" :> "v") @@ ("W" :> "w") @@ ("X" :> "x") @@ ("Y" :> "y") @@
    ("Z" :> "z") @@ ("A_acute" :> "a_acute") @@ ("E_acute" :> "e_acute") @@
    ("I_acute" :> "i_acute") @@ ("O_acute" :> "o_acute") @@
    ("U_acute" :> "u_acute") @@ ("N_tilde" :> "n_tilde")

\* str.lower()
Lower(s) == [i \in 1..Len(s) |-> IF s[i] \in DOMAIN LowerOf THEN LowerOf[s[i]] ELSE s[i]]

\* NFKD splits an accented letter into its base letter and a combining mark
BaseOf ==
    ("a_acute" :> "a") @@ ("e_acute" :> "e") @@ ("i_acute" :> "i") @@
    ("o_acute" :> "o") @@ ("u_acute" :> "u") @@ ("n_tilde" :> "n") @@
    ("A_acute" :> "A") @@ ("E_acute" :> "E") @@ ("I_acute" :> "I") @@
    ("O_acute" :> "O") @@ ("U_acute" :> "U") @@ ("N_tilde" :> "N")

\* line 248: normalize("NFKD"), encode("ascii", "ignore"), decode("utf-8"):
\* the combining mark is dropped and the base letter stays
StripAccents(s) == [i \in 1..Len(s) |-> IF s[i] \in DOMAIN BaseOf THEN BaseOf[s[i]] ELSE s[i]]

\* astype(str): a missing cell reads "nan"
AsStr(cell) == IF cell.tag = "missing" THEN <<"n", "a", "n">> ELSE cell.s

\* lines 246-248
StatusText(cell) == StripAccents(Lower(Strip(AsStr(cell))))

\* line 250
valores_pagadas ==
    { <<"p", "a", "g", "a", "d", "a">>,
      <<"p", "a", "g", "a", "d", "o">>,
      <<"c", "o", "b", "r", "a", "d", "o">>,
      <<"c", "o", "b", "r", "a", "d", "a">>,
      <<"s", "i">>,
      <<"s", "i_acute">>,
      <<"1">>,
      <<"t", "r", "u", "e">>,
      <<"y">>,
      <<"y", "e", "s">> }

\* line 251
valores_no_pagadas ==
    { <<"n", "o", " ", "p", "a", "g", "a", "d", "a">>,
      <<"n", "o", " ", "p", "a", "g", "a", "d", "o">>,
      <<"i", "m", "p", "a", "g", "a">>,
      <<"p", "e", "n", "d", "i", "e", "n", "t", "e">>,
      <<"0">>,
      <<"f", "a", "l", "s", "e">>,
      <<"n">>,
      <<"n", "o">>,
      <<>> }

\* a membership test by substring containment
ContainsSomeValue(text, values) == \E v \in values : Contains(v, text)

\* Series.isin: the text equals one of the values
IsIn(text, values) == text \in values

\* the decided values, forgetting the unpaid ones
DecidedPaidOnly == valores_pagadas

\* line 256: valores_pagadas | valores_no_pagadas
Decided == valores_pagadas \cup valores_no_pagadas

StatusCells ==
    { Missing,
      Str(<<"p", "a", "g", "a", "d", "a">>),
      Str(<<"n", "o", " ", "p", "a", "g", "a", "d", "a">>),
      Str(<<"e", "n", " ", "t", "r", "a_acute", "m", "i", "t", "e">>),
      Str(<<"f", "a", "c", "t", "u", "r", "a", " ", "p", "e", "n", "d", "i", "e", "n", "t", "e">>),
      Str(<<" ", "P", "a", "g", "a", "d", "a", " ">>),
      Str(<<"S", "i_acute">>),
      Str(<<>>) }

InitStatus ==
    /\ pc = "status"
    /\ \E n \in 1..MaxStatusRows :
         \E rows \in [1..n -> [estado : StatusCells]] : df = [rows |-> rows]
    /\ work = <<>> /\ cobradas = {} /\ en_curso = {} /\ no_cobradas = {}
    /\ NumIdle /\ EngIdle /\ PdfIdle

ClassifyByStatus ==
    /\ pc = "status"
    /\ LET s == [i \in 1..Len(df.rows) |-> StatusText(df.rows[i].estado)]
       IN  /\ work' = s
           /\ cobradas' = {i \in 1..Len(s) : IsIn(s[i], valores_pagadas)}
           /\ no_cobradas' = {i \in 1..Len(s) : IsIn(s[i], valores_no_pagadas)}
           /\ en_curso' = {i \in 1..Len(s) : ~IsIn(s[i], Decided)}
    /\ pc' = "status_done"
    /\ UNCHANGED <<df, numVars, engVars, pdfVars>>

NextStatus == ClassifyByStatus
SpecStatus == InitStatus /\ [][NextStatus]_vars

(***************************************************************************)
(* C4, C5: the status mode.                                                *)
(***************************************************************************)
StatusClassified == pc = "status_done"

Only(i, part) ==
    /\ (i \in cobradas) = (part = "cobradas")
    /\ (i \in en_curso) = (part = "en_curso")
    /\ (i \in no_cobradas) = (part = "no_cobradas")

\* a vocabulary term indicates a text that contains it; the empty term and
\* the one-letter terms ("n", "y", "0", "1") are taken to indicate only the
\* text equal to them, the reading under which 'pagada' and 'en tramite'
\* are classified as the claim says
Indicates(term, text) == IF Len(term) <= 1 THEN text = term ELSE Contains(term, text)

\* C4 as stated: containment with negation priority: a normalized text that
\* contains an unpaid term is Unpaid, else one that contains a paid term is
\* Paid, else it is Undetermined (the middle partition).
C4_AsStated ==
    StatusClassified =>
      \A i \in Rows :
        IF \E v \in valores_no_pagadas : Indicates(v, work[i])
        THEN Only(i, "no_cobradas")
        ELSE IF \E v \in valores_pagadas : Indicates(v, work[i])
             THEN Only(i, "cobradas")
             ELSE Only(i, "en_curso")

\* C4 (amended): the status classifier uses exact membership: a normalized
\* text equal to an unpaid term is Unpaid, one equal to a paid term is Paid,
\* and every other text is Undetermined, also when it contains a vocabulary
\* term.  So 'no pagada' is Unpaid, 'pagada' is Paid, and 'en tramite' and
\* 'factura pendiente' are Undetermined.
C4_ExactMembership ==
    StatusClassified =>
      \A i \in Rows :
        /\ work[i] \in valores_no_pagadas => Only(i, "no_cobradas")
        /\ work[i] \in valores_pagadas => Only(i, "cobradas")
        /\ work[i] \notin valores_pagadas \cup valores_no_pagadas => Only(i, "en_curso")
        /\ df.rows[i].estado = Str(<<"n", "o", " ", "p", "a", "g", "a", "d", "a">>)
             => Only(i, "no_cobradas")
        /\ df.rows[i].estado = Str(<<"p", "a", "g", "a", "d", "a">>)
             => Only(i, "cobradas")
        /\ df.rows[i].estado = Str(<<"e", "n", " ", "t", "r", "a_acute", "m", "i", "t", "e">>)
             => Only(i, "en_curso")
        /\ df.rows[i].estado = Str(<<"f", "a", "c", "t", "u", "r", "a", " ", "p", "e",
                                     "n", "d", "i", "e", "n", "t", "e">>)
             => Only(i, "en_curso")

\* 'factura pendiente' has gone to the middle partition, 'no pagada' to the
\* unpaid one
C4_Witness ==
    /\ StatusClassified
    /\ \E i, j \in Rows :
         /\ work[i] = <<"f", "a", "c", "t", "u", "r", "a", " ", "p", "e", "n", "d",
                        "i", "e", "n", "t", "e">>
         /\ i \in en_curso
         /\ work[j] = <<"n", "o", " ", "p", "a", "g", "a", "d", "a">>
         /\ j \in no_cobradas

\* C5: in status mode every record is in exactly one of the three
\* partitions, an undetermined one (a missing status cell included) in the
\* middle partition, so the three sizes sum to the number of records.
C5_ExactlyOnePartition ==
    StatusClassified =>
      /\ \A i \in Rows :
           \/ Only(i, "cobradas") \/ Only(i, "en_curso") \/ Only(i, "no_cobradas")
      /\ \A i \in Rows : df.rows[i].estado = Missing => Only(i, "en_curso")
      /\ cobradas \cup en_curso \cup no_cobradas = Rows
      /\ Cardinality(cobradas) + Cardinality(en_curso) + Cardinality(no_cobradas)
           = Len(df.rows)

\* a missing status cell in the middle partition beside a paid record
C5_Witness ==
    /\ StatusClassified
    /\ \E i, j \in Rows :
         /\ df.rows[i].estado = Missing /\ i \in en_curso
         /\ j \in cobradas

(***************************************************************************)
(* The choice of the classification mode: load_files' column names, the    *)
(* column resolver of classify_by_amounts, the candidates of               *)
(* classify_by_status and the module-level dispatch (lines 299-310).  The  *)
(* rows are abstracted to any_total: whether any cell of the resolved      *)
(* total column parses to a number.                                        *)
(***************************************************************************)
\* re.sub(r"\s+", rep, s)
RECURSIVE SubWhitespace(_, _)
SubWhitespace(s, rep) ==
    IF s = <<>> THEN <<>>
    ELSE IF Head(s) \in Whitespace
         THEN rep \o SubWhitespace(LStrip(Tail(s)), rep)
         ELSE <<Head(s)>> \o SubWhitespace(Tail(s), rep)

\* lines 59-61
NormalizeText(s) == Lower(SubWhitespace(Strip(s), <<" ">>))

\* line 140: the column names load_files gives the frame
ColumnName(c) == SubWhitespace(Lower(Strip(c)), <<"_">>)

\* line 154
total_candidates ==
    << <<"t", "o", "t", "a", "l">>,
       <<"i", "m", "p", "o", "r", "t", "e">>,
       <<"m", "o", "n", "t", "o">>,
       <<"a", "m", "o", "u", "n", "t">>,
       <<"t", "o", "t", "a", "l", "_", "f", "a", "c", "t", "u", "r", "a">>,
       <<"i", "m", "p", "o", "r", "t", "e", "_", "t", "o", "t", "a", "l">> >>

\* line 155
paid_candidates ==
    << <<"p", "a", "g", "a", "d", "o">>,
       <<"a", "b", "o", "n", "a", "d", "o">>,
       <<"p", "a", "g", "o">>,
       <<"p", "a", "i", "d">>,
       <<"i", "m", "p", "o", "r", "t", "e", "_", "p", "a", "g", "a", "d", "o">>,
       <<"m", "o", "n", "t", "o", "_", "p", "a", "g", "a", "d", "o">> >>

\* line 156
pending_candidates ==
    << <<"p", "e", "n", "d", "i", "e", "n", "t", "e">>,
       <<"r", "e", "s", "t", "a", "n", "t", "e">>,
       <<"s", "a", "l", "d", "o">>,
       <<"d", "u", "e">>,
       <<"p", "o", "r", "_", "c", "o", "b", "r", "a", "r">> >>

\* line 237
status_terms ==
    << <<"e", "s", "t", "a", "d", "o">>,
       <<"s", "t", "a", "t", "u", "s">>,
       <<"p", "a", "g">>,
       <<"c", "o", "b">> >>

\* find_col's result: a column, or None
NoColumn == [some |-> FALSE, name |-> <<>>]
Column(c) == [some |-> TRUE, name |-> c]

\* the first column, in schema order, that contains the candidate
RECURSIVE FirstColumnWith(_, _)
FirstColumnWith(cols, cand) ==
    IF cols = <<>> THEN NoColumn
    ELSE IF Contains(cand, NormalizeText(Head(cols))) THEN Column(Head(cols))
         ELSE FirstColumnWith(Tail(cols), cand)

\* a resolver that walks the candidates first and the columns second
RECURSIVE find_col_by_candidate(_, _)
find_col_by_candidate(cols, cands) ==
    IF cands = <<>> THEN NoColumn
    ELSE IF FirstColumnWith(cols, Head(cands)).some
         THEN FirstColumnWith(cols, Head(cands))
         ELSE find_col_by_candidate(cols, Tail(cands))

\* lines 164-166: the inner loop over the candidates
RECURSIVE AnyCandidateIn(_, _)
AnyCandidateIn(cands, c_norm) ==
    IF cands = <<>> THEN FALSE
    ELSE IF Contains(Head(cands), c_norm) THEN TRUE
         ELSE AnyCandidateIn(Tail(cands), c_norm)

\* lines 161-167
RECURSIVE find_col(_, _)
find_col(cols, cands) ==
    IF cols = <<>> THEN NoColumn
    ELSE IF AnyCandidateIn(cands, NormalizeText(Head(cols))) THEN Column(Head(cols))
         ELSE find_col(Tail(cols), cands)

\* Python's "not col": None and the empty name are false
Falsy(col) == ~col.some \/ col.name = <<>>

\* an amount mode that also wants the paid column
TotalAndPaidResolved(total, paid) == ~Falsy(total) /\ ~Falsy(paid)

\* lines 173-174: amounts can be used unless "not col_total"
AmountsUsable(total, paid) == ~Falsy(total)

\* line 237: the status-like columns, in schema order
StatusCandidates(cols) ==
    SelectSeq(cols, LAMBDA c : \E k \in 1..Len(status_terms) :
                                  Contains(status_terms[k], Lower(c)))

SampleHeaders ==
    { <<"T", "o", "t", "a", "l">>,
      <<"I", "m", "p", "o", "r", "t", "e">>,
      <<"I", "m", "p", "o", "r", "t", "e", " ", "P", "a", "g", "a", "d", "o">>,
      <<"p", "a", "g", "o", " ", " ", "t", "o", "t", "a", "l">>,
      <<"P", "a", "g", "a", "d", "o">>,
      <<"P", "e", "n", "d", "i", "e", "n", "t", "e">>,
      <<"E", "s", "t", "a", "d", "o">>,
      <<"C", "l", "i", "e", "n", "t", "e">>,
      <<" ", "S", "A", "L", "D", "O", " ">> }

\* the frames have pairwise different column names
InitEngine ==
    /\ pc = "load_files"
    /\ \E n \in 1..MaxCols :
         \E h \in [1..n -> SampleHeaders] :
           /\ \A i, j \in 1..n : i # j => h[i] # h[j]
           /\ headers = h
    /\ any_total \in BOOLEAN
    /\ df_columns = <<>>
    /\ col_total = NoColumn /\ col_paid = NoColumn /\ col_pending = NoColumn
    /\ estado_col = NoColumn
    /\ result = "unset" /\ by_amounts = FALSE
    /\ NumIdle /\ TabIdle /\ PdfIdle

\* lines 134-143 and 291
LoadFiles ==
    /\ pc = "load_files"
    /\ df_columns' = [i \in 1..Len(headers) |-> ColumnName(headers[i])]
    /\ pc' = "classify_by_amounts"
    /\ UNCHANGED <<headers, any_total, col_total, col_paid, col_pending, estado_col,
                   result, by_amounts, numVars, tabVars, pdfVars>>

\* lines 300-301 with classify_by_amounts: None, or the three frames, which
\* are all empty when no total parses
CallClassifyByAmounts ==
    /\ pc = "classify_by_amounts"
    /\ LET total   == find_col(df_columns, total_candidates)
           paid    == find_col(df_columns, paid_candidates)
           pending == find_col(df_columns, pending_candidates)
       IN  /\ col_total' = total
           /\ col_paid' = paid
           /\ col_pending' = pending
           /\ IF AmountsUsable(total, paid)
              THEN /\ result' = IF any_total THEN "partitions" ELSE "empty partitions"
                   /\ pc' = "unpack"
              ELSE /\ result' = "None"
                   /\ pc' = "classify_by_status"
    /\ by_amounts' = TRUE
    /\ UNCHANGED <<headers, df_columns, any_total, estado_col, numVars, tabVars, pdfVars>>

\* lines 302-304 with classify_by_status: None without candidates, else the
\* three frames for the column picked in the selectbox
CallClassifyByStatus ==
    /\ pc = "classify_by_status"
    /\ LET candidates == StatusCandidates(df_columns)
       IN  IF candidates = <<>>
           THEN /\ result' = "None"
                /\ UNCHANGED estado_col
           ELSE /\ \E k \in 1..Len(candidates) : estado_col' = Column(candidates[k])
                /\ result' = "partitions"
    /\ by_amounts' = FALSE
    /\ pc' = "unpack"
    /\ UNCHANGED <<headers, df_columns, any_total, col_total, col_paid, col_pending,
                   numVars, tabVars, pdfVars>>

\* lines 306-308: st.error and st.stop
ReportNoBasis ==
    /\ pc = "unpack"
    /\ result = "None"
    /\ pc' = "stopped"
    /\ UNCHANGED <<engVars, numVars, tabVars, pdfVars>>

\* line 310 and the rest of the script
ShowResult ==
    /\ pc = "unpack"
    /\ result # "None"
    /\ pc' = "shown"
    /\ UNCHANGED <<engVars, numVars, tabVars, pdfVars>>

NextEngine ==
    \/ LoadFiles
    \/ CallClassifyByAmounts
    \/ CallClassifyByStatus
    \/ ReportNoBasis
    \/ ShowResult
SpecEngine == InitEngine /\ [][NextEngine]_vars

(***************************************************************************)
(* C3, C8, C10: the column resolver and the choice of the mode.            *)
(***************************************************************************)
\* the indexes of the columns whose normalized name contains a term
Matching(terms) ==
    {i \in 1..Len(df_columns) :
       \E k \in 1..Len(terms) : Contains(terms[k], NormalizeText(df_columns[i]))}

TotalResolvable == Matching(total_candidates) # {}
StatusLikeColumn ==
    \E i \in 1..Len(df_columns) :
      \E k \in 1..Len(status_terms) : Contains(status_terms[k], Lower(df_columns[i]))

Dispatched == pc \in {"classify_by_status", "unpack", "stopped", "shown"}
AmountMode == by_amounts /\ result \in {"partitions", "empty partitions"}
StatusMode == ~by_amounts /\ result = "partitions"

Reverse(s) == [i \in 1..Len(s) |-> s[Len(s) + 1 - i]]

\* the first column in schema order that matches one of the terms
FirstMatching(terms) ==
    IF Matching(terms) = {} THEN NoColumn
    ELSE Column(df_columns[CHOOSE i \in Matching(terms) :
                             \A j \in Matching(terms) : i <= j])

\* C8: for each role find_col returns the first column in schema order whose
\* normalized name contains one of the role's candidate terms, or none; the
\* order of the candidate terms does not change the result, and a role that
\* does not resolve does not keep another from resolving.
C8_ColumnResolver ==
    Dispatched =>
      /\ col_total = FirstMatching(total_candidates)
      /\ col_paid = FirstMatching(paid_candidates)
      /\ col_pending = FirstMatching(pending_candidates)
      /\ find_col(df_columns, Reverse(total_candidates)) = col_total
      /\ find_col(df_columns, Reverse(paid_candidates)) = col_paid
      /\ find_col(df_columns, Reverse(pending_candidates)) = col_pending

\* two columns match the total role, the first in schema order is taken
\* although the second matches an earlier candidate, and paid is unresolved
C8_Witness ==
    /\ Dispatched
    /\ df_columns = << <<"i", "m", "p", "o", "r", "t", "e">>, <<"t", "o", "t", "a", "l">> >>
    /\ col_total = Column(<<"i", "m", "p", "o", "r", "t", "e">>)
    /\ col_paid = NoColumn

\* C10: the columns resolved for two monetary roles are never the same
\* column.
C10_DistinctColumns ==
    Dispatched =>
      /\ col_total.some /\ col_paid.some => col_total # col_paid
      /\ col_total.some /\ col_pending.some => col_total # col_pending
      /\ col_paid.some /\ col_pending.some => col_paid # col_pending

(***************************************************************************)
(* read_pdf_tables (lines 83-110).  A page either makes extract_tables     *)
(* raise or yields a list of tables; a table is empty, holds a header row  *)
(* only (its frame is empty) or holds data rows.  A frame is named by the  *)
(* page and the place of its table; the returned frame is the sequence of  *)
(* the frames concatenated, <<>> being the empty DataFrame.                *)
(***************************************************************************)
Raises == [raises |-> TRUE, tables |-> <<>>]
Yields(tables) == [raises |-> FALSE, tables |-> tables]

PageOutcomes ==
    {Raises} \cup
    {Yields(tb) : tb \in {<<>>, <<"empty">>, <<"header only">>, <<"data">>,
                          <<"header only", "data">>}}

\* lines 94-105: the frames one page adds to dfs
PageFrames(k, tables) ==
    LET kept == {j \in 1..Len(tables) : tables[j] = "data"}
        RECURSIVE Frames(_)
        Frames(j) ==
            IF j > Len(tables) THEN <<>>
            ELSE (IF j \in kept THEN <<[page |-> k, table |-> j]>> ELSE <<>>)
                   \o Frames(j + 1)
    IN  Frames(1)

InitPdf ==
    /\ pc = "read_pdf_tables"
    /\ PDF_ENABLED \in BOOLEAN
    /\ \E n \in 1..MaxPages : pages \in [1..n -> PageOutcomes]
    /\ page_i = 0 /\ dfs = <<>> /\ pdf_ret = <<>>
    /\ NumIdle /\ EngIdle /\ TabIdle

\* lines 86-87
ReturnPdfDisabled ==
    /\ pc = "read_pdf_tables"
    /\ ~PDF_ENABLED
    /\ pdf_ret' = <<>>
    /\ pc' = "pdf_returned"
    /\ UNCHANGED <<PDF_ENABLED, pages, page_i, dfs, numVars, engVars, tabVars>>

\* lines 89-91
OpenPdf ==
    /\ pc = "read_pdf_tables"
    /\ PDF_ENABLED
    /\ dfs' = <<>>
    /\ page_i' = 0
    /\ pc' = "for_page"
    /\ UNCHANGED <<PDF_ENABLED, pages, pdf_ret, numVars, engVars, tabVars>>

\* lines 92-105: one turn of the loop over the pages
ExtractPage ==
    /\ pc = "for_page"
    /\ page_i < Len(pages)
    /\ ~pages[page_i + 1].raises
    /\ dfs' = dfs \o PageFrames(page_i + 1, pages[page_i + 1].tables)
    /\ page_i' = page_i + 1
    /\ UNCHANGED <<pc, PDF_ENABLED, pages, pdf_ret, numVars, engVars, tabVars>>

\* line 93 raising, lines 108-110: the except clause leaves the loop and the
\* function returns an empty frame
ExtractPageRaises ==
    /\ pc = "for_page"
    /\ page_i < Len(pages)
    /\ pages[page_i + 1].raises
    /\ pdf_ret' = <<>>
    /\ pc' = "pdf_returned"
    /\ UNCHANGED <<PDF_ENABLED, pages, page_i, dfs, numVars, engVars, tabVars>>

\* lines 106-107 and 110
ConcatAndReturn ==
    /\ pc = "for_page"
    /\ page_i = Len(pages)
    /\ pdf_ret' = IF dfs # <<>> THEN dfs ELSE <<>>
    /\ pc' = "pdf_returned"
    /\ UNCHANGED <<PDF_ENABLED, pages, page_i, dfs, numVars, engVars, tabVars>>

NextPdf ==
    \/ ReturnPdfDisabled
    \/ OpenPdf
    \/ ExtractPage
    \/ ExtractPageRaises
    \/ ConcatAndReturn
SpecPdf == InitPdf /\ [][NextPdf]_vars

(***************************************************************************)
(* C9: a page whose extraction fails.                                      *)
(***************************************************************************)
\* the frames of the pages whose extraction does not fail, in page order
RECURSIVE FramesFrom(_)
FramesFrom(k) ==
    IF k > Len(pages) THEN <<>>
    ELSE (IF pages[k].raises THEN <<>> ELSE PageFrames(k, pages[k].tables))
           \o FramesFrom(k + 1)

\* C9: a page whose extraction fails is treated as empty and nothing more:
\* read_pdf_tables still returns the tables of the pages before it and of
\* the pages after it.
C9_FailedPageIsEmpty ==
    pc = "pdf_returned" /\ PDF_ENABLED => pdf_ret = FramesFrom(1)

====
